---- MODULE Spec2Model ----
(***************************************************************************)
(* State-machine model of ecobee.js: one externally scheduled run loads    *)
(* the settings snapshot, authorizes against the sensor provider (PIN      *)
(* grant / token exchange), polls the thermostats, and drives the          *)
(* SunroomHeater plug with a hysteresis rule, mailing the operator.        *)
(*                                                                         *)
(* A step of the model is what the script executes between two awaits.     *)
(* Temperatures are integers in tenths of a degree.  Tokens and authCodes  *)
(* are identified by the number of the PIN grant that produced them;       *)
(* 0 stands for an absent field.                                           *)
(***************************************************************************)
EXTENDS Integers, Sequences, FiniteSets, TLC

VARIABLES
    file,        \* contents of SETTINGS_FILE: Missing, Partial or Stored(snapshot)
    settings,    \* the in-memory settings object of the running process
    start,       \* the settings as loaded at the start of the current run
    pc,          \* where the main async function is waiting
    outcome,     \* how the current/last run ended ("none" while running)
    reqs,        \* provider requests issued so far in the current run
    grant,       \* provider side: status of each PIN grant
    cb,          \* the remoteSensor callbacks started by the current run
    pinMail      \* the mailSend of the PIN path: none/pending/sent/failed

vars == <<file, settings, start, pc, outcome, reqs, grant, cb, pinMail>>

----------------------------------------------------------------------------
(* Bounds of the model *)

\* PIN grants the provider issues in one behaviour
MaxGrants == 2
\* thermostats in one poll response (each carries one remote sensor)
MaxThermostats == 2

----------------------------------------------------------------------------
(* Program constants *)

\* statusCode == 14: expired access token
ExpiredCode == 14
\* temp > 12 switches the heater off
OffAbove == 120
\* temp < 11 switches the heater on
OnBelow == 110
\* temp < 5 mails the operator
AlertBelow == 50

Grants == 1..MaxGrants


\* settings = {}
Empty ==
    [authCode |-> 0, access_token |-> 0, refresh_token |-> 0,
     token_type |-> 0, device_SunroomHeater |-> "unset"]

\* the file does not exist
Missing == [kind |-> "missing", data |-> Empty]
\* the file holds a truncated document (a write that did not finish)
Partial == [kind |-> "partial", data |-> Empty]
\* the file holds JSON.stringify(s)
Stored(s) == [kind |-> "ok", data |-> s]

\* temperature capability values the poll may carry, in tenths of a degree
\* Fahrenheit: 4.9, 10.9, 11.0, 11.5, 12.0 and 13.0 degrees Celsius.  Every
\* sensor is taken to carry a temperature capability (without one the
\* callback keeps temp = 0, which behaves like the coldest reading here).
RawTemps == {409, 516, 518, 527, 536, 554}

SensorNames == {"Sunroom", "Kitchen"}

Thermostats ==
    [connected : BOOLEAN, name : SensorNames, raw : RawTemps]

ThermostatLists ==
    UNION {[1..n -> Thermostats] : n \in 1..MaxThermostats}

----------------------------------------------------------------------------
(* Pure helpers *)

\* ((Number(value) - 320) * 5/90).toFixed(1), as tenths of a degree Celsius.
\* (value-320)*5/9 is never halfway between two integers, so rounding to
\* nearest is floor(x + 1/2).
ToCelsius(raw) == (2 * ((raw - 320) * 5) + 9) \div 18

\* a variant that takes any file that exists for a readable one
IsSnapshot_Lenient(f) == f.kind # "missing"

IsSnapshot(f) == f.kind = "ok"

\* JSON.parse(fs.readFileSync(SETTINGS_FILE)) with the catch: a missing or
\* truncated file throws, and settings stays {}
Loaded(f) == IF IsSnapshot(f) THEN f.data ELSE Empty

\* if( !settings.authCode )
NeedsPin(s) == s.authCode = 0

\* a variant that asks for a token on every run
NeedsToken_Always(s) == TRUE

\* if( !settings.access_token )
NeedsToken(s) == s.access_token = 0

\* a variant that prefers the stored authCode: the PIN grant is used whenever
\* an authCode is there
UseRefresh_PinFirst(s) == s.refresh_token # 0 /\ s.authCode = 0

\* settings.refresh_token ? grant_type=refresh_token : grant_type=ecobeePin
UseRefresh(s) == s.refresh_token # 0

TokenGrant(s) == IF UseRefresh(s) THEN "tokenRefresh" ELSE "tokenPin"

\* code=... of the token request
TokenCode(s) == IF UseRefresh(s) THEN s.refresh_token ELSE s.authCode

\* a variant with the two branches exchanged
TokenError_Swapped(s, err) ==
    IF err = "authorization_expired"
    THEN [s EXCEPT !.access_token = 0]
    ELSE [s EXCEPT !.authCode = 0]

\* if error=='authorization_expired' delete authCode else delete access_token
TokenError(s, err) ==
    IF err = "authorization_expired"
    THEN [s EXCEPT !.authCode = 0]
    ELSE [s EXCEPT !.access_token = 0]

\* settings = { ...settings, ...response.data }
TokenMerge(s, g) ==
    [s EXCEPT !.access_token = g, !.refresh_token = g, !.token_type = 1]

\* a variant that clears the token on every error status
ClearsOnStatus_Any(code) == code # 0

\* if( statusCode == 14 ): the status that clears the access token
ClearsOnStatus(code) == code = ExpiredCode

\* a variant that deletes the wrong field
PollExpired_DropsAuthCode(s) == [s EXCEPT !.authCode = 0]

\* a variant that forgets the refresh token as well
PollExpired_DropsTokens(s) == [s EXCEPT !.access_token = 0, !.refresh_token = 0]

\* statusCode == 14: delete settings.access_token
PollExpired(s) == [s EXCEPT !.access_token = 0]

\* a variant that does not look at the recorded device state
Decide_Stateless(temp, dev) ==
    IF temp > OffAbove THEN "powerOff"
    ELSE IF temp < OnBelow THEN "powerOn"
    ELSE "none"

\* a variant with inclusive comparisons (>= 12, <= 11)
Decide_Inclusive(temp, dev) ==
    IF temp >= OffAbove /\ dev # "powerOff" THEN "powerOff"
    ELSE IF temp <= OnBelow /\ dev # "powerOn" THEN "powerOn"
    ELSE "none"

\* the two conditions of the Sunroom handling
Decide(temp, dev) ==
    IF temp > OffAbove /\ dev # "powerOff" THEN "powerOff"
    ELSE IF temp < OnBelow /\ dev # "powerOn" THEN "powerOn"
    ELSE "none"

\* a variant that records the commanded mode without looking at the result
ApplyResult_Unchecked(s, mode, result) == [s EXCEPT !.device_SunroomHeater = mode]

\* if( result ) settings.device_SunroomHeater = powerMode
ApplyResult(s, mode, result) ==
    IF result = "ok" THEN [s EXCEPT !.device_SunroomHeater = mode] ELSE s

\* if( temp<5 ) mailSend(...)
NeedsAlert(temp) == temp < AlertBelow

----------------------------------------------------------------------------
(* The sensor provider, as far as the script observes it *)

\* a token request is accepted when the grant behind its code is authorized
GrantValid(g) == g \in Grants /\ grant[g] = "redeemed"

\* response.data.error of a rejected token request.  A PIN that is still
\* waiting for the operator is reported as pending; for a stale code the
\* script tests the error with either grant type, so both kinds may come back.
RejectErrors(g) ==
    IF g \in Grants /\ grant[g] = "pending"
    THEN {"authorization_pending"}
    ELSE {"authorization_expired", "invalid_grant"}

\* response.data.status.code of the poll
PollCodes(g) == IF GrantValid(g) THEN {0, ExpiredCode, 3} ELSE {ExpiredCode, 3}

NextGrant == CHOOSE g \in Grants : grant[g] = "none" /\ \A h \in Grants : h < g => grant[h] # "none"

GrantsLeft == \E g \in Grants : grant[g] = "none"

----------------------------------------------------------------------------
(* Callbacks *)

\* the remoteSensor callback up to its first await (or to its end)
FirstStep(t, dev) ==
    LET temp == ToCelsius(t.raw)
        cmd  == IF t.name = "Sunroom" THEN Decide(temp, dev) ELSE "none"
        mail == t.name = "Sunroom" /\ cmd = "none" /\ NeedsAlert(temp)
    IN  [connected |-> t.connected,
         name   |-> t.name,
         temp   |-> temp,
         seen   |-> dev,
         cmd    |-> cmd,
         result |-> IF cmd = "none" THEN "none" ELSE "pending",
         mail   |-> IF mail THEN "pending" ELSE "none",
         logged |-> FALSE]

\* if( !thermostat.runtime.connected ) return: no callback runs for the
\* sensor of such a thermostat and its reading is never converted
Skipped(t, dev) ==
    [connected |-> FALSE,
     name   |-> t.name,
     temp   |-> 0,
     seen   |-> dev,
     cmd    |-> "none",
     result |-> "none",
     mail   |-> "none",
     logged |-> FALSE]

\* a variant that does not look at runtime.connected
Callbacks_IgnoreConnected(list, dev) ==
    [i \in 1..Len(list) |-> FirstStep(list[i], dev)]

\* thermostatList.forEach: one entry per thermostat of the poll, in order;
\* disconnected thermostats are skipped
Callbacks(list, dev) ==
    [i \in 1..Len(list) |->
        IF list[i].connected THEN FirstStep(list[i], dev) ELSE Skipped(list[i], dev)]

\* a callback that reaches settingsSave (line 233) before its first await
SavesAtOnce(c) == c.connected /\ c.name = "Sunroom" /\ c.cmd = "none"

Waiting(c) == c.result = "pending" \/ c.mail = "pending"

\* the callback's promise was rejected: an await in it threw
Rejected(c) == c.result = "threw" \/ c.mail = "failed"

\* process.exit(1) on the halting branches; a process that simply runs out
\* of work ends with 0, also after a rejection that was only reported
ExitCode(o) == IF o \in {"completed", "unhandled"} THEN 0 ELSE 1

Init ==
    /\ file = Missing
    /\ settings = Empty
    /\ start = Empty
    /\ pc = "exited"
    /\ outcome = "none"
    /\ reqs = {}
    /\ grant = [g \in Grants |-> "none"]
    /\ cb = <<>>
    /\ pinMail = "none"

----------------------------------------------------------------------------
(* The run.  `crash` says that the process dies inside the writeFileSync of *)
(* the step: the file is left truncated and nothing after the write runs.   *)

\* fs.writeFileSync( SETTINGS_FILE, JSON.stringify(settings) )
settingsSave(s, crash) == file' = IF crash THEN Partial ELSE Stored(s)

Died == pc' = "exited" /\ outcome' = "crashed"

\* Lines 86-100 / 121-127 / 149-163: load the settings and issue the first
\* request of the run: a PIN request, a token request or the poll.
Start(crash) ==
    /\ pc = "exited"
    /\ LET s0 == Loaded(file) IN
        /\ crash => ~IsSnapshot(file)
        /\ IF IsSnapshot(file) THEN file' = file ELSE settingsSave(Empty, crash)
        /\ settings' = s0
        /\ start' = s0
        /\ cb' = <<>>
        /\ pinMail' = "none"
        /\ IF crash
           THEN Died /\ reqs' = {}
           ELSE /\ outcome' = "none"
                /\ IF NeedsPin(s0)
                   THEN GrantsLeft /\ reqs' = {"authorize"} /\ pc' = "awaitPin"
                   ELSE IF NeedsToken(s0)
                   THEN reqs' = {TokenGrant(s0)} /\ pc' = "awaitToken"
                   ELSE reqs' = {"poll"} /\ pc' = "awaitPoll"
    /\ UNCHANGED grant

\* Lines 102-111: the provider issued a PIN and its code; store the code,
\* save, and call mailSend.
PinResponse(crash) ==
    /\ pc = "awaitPin"
    /\ LET g == NextGrant
           s == [settings EXCEPT !.authCode = g]
       IN  /\ grant' = [grant EXCEPT ![g] = "pending"]
           /\ settings' = s
           /\ settingsSave(s, crash)
    /\ IF crash
       THEN Died /\ pinMail' = pinMail
       ELSE pc' = "awaitPinMail" /\ pinMail' = "pending" /\ outcome' = outcome
    /\ UNCHANGED <<start, reqs, cb>>

\* Lines 111-114: mailSend settles.  Resolved: process.exit(1).  Rejected:
\* the await throws out of the main function, which nothing catches: the
\* runtime ends the process with an error (`kill`) or only reports the
\* rejection and lets the idle process end normally.
PinMailReturn(sent, kill) ==
    /\ pc = "awaitPinMail"
    /\ sent => ~kill
    /\ pinMail' = IF sent THEN "sent" ELSE "failed"
    /\ outcome' = IF sent THEN "AuthorizationPending"
                  ELSE IF kill THEN "uncaught" ELSE "unhandled"
    /\ pc' = "exited"
    /\ UNCHANGED <<file, settings, start, reqs, grant, cb>>

\* Lines 129-145 and 149-163: the token endpoint answers.
TokenResponse(crash) ==
    /\ pc = "awaitToken"
    /\ LET g == TokenCode(settings) IN
       IF GrantValid(g)
       THEN /\ settings' = TokenMerge(settings, g)
            /\ settingsSave(settings', crash)
            /\ IF crash
               THEN Died /\ reqs' = reqs
               ELSE pc' = "awaitPoll" /\ reqs' = reqs \cup {"poll"} /\ outcome' = outcome
       ELSE \E err \in RejectErrors(g) :
            /\ settings' = TokenError(settings, err)
            /\ settingsSave(settings', crash)
            /\ reqs' = reqs
            /\ pc' = "exited"
            /\ outcome' = IF crash THEN "crashed"
                          ELSE IF err = "authorization_expired" THEN "authCode_expired"
                          ELSE "token_error"
    /\ UNCHANGED <<start, grant, cb, pinMail>>

\* Lines 173-242: the poll answers.  A non-zero status code ends the run;
\* status 0 runs every remoteSensor callback up to its first await, after
\* which the main function returns.
PollResponse(crash) ==
    /\ pc = "awaitPoll"
    /\ \E code \in PollCodes(settings.access_token) :
       IF code # 0
       THEN /\ crash => ClearsOnStatus(code)
            /\ settings' = IF ClearsOnStatus(code) THEN PollExpired(settings) ELSE settings
            /\ IF ClearsOnStatus(code) THEN settingsSave(settings', crash) ELSE file' = file
            /\ cb' = cb
            /\ pc' = "exited"
            /\ outcome' = IF crash THEN "crashed"
                          ELSE IF code = ExpiredCode THEN "upstream_expired"
                          ELSE "upstream_other"
       ELSE \E list \in ThermostatLists :
            LET cbs == Callbacks(list, settings.device_SunroomHeater)
                saves == \E i \in 1..Len(cbs) : SavesAtOnce(cbs[i])
            IN  /\ crash => saves
                /\ cb' = cbs
                /\ settings' = settings
                /\ IF saves THEN settingsSave(settings, crash) ELSE file' = file
                /\ IF crash THEN Died ELSE pc' = "sensors" /\ outcome' = outcome
    /\ UNCHANGED <<start, reqs, grant, pinMail>>

\* An await inside a callback threw and nothing catches it: depending on the
\* runtime the unhandled rejection ends the process at once or is only
\* reported (`kill`).
Unhandled(kill) ==
    IF kill THEN pc' = "exited" /\ outcome' = "uncaught"
            ELSE pc' = pc /\ outcome' = outcome

\* Lines 73-84, 215-236: deviceToggle settles for callback i.
ToggleReturn(i, result, kill, crash) ==
    /\ pc = "sensors"
    /\ i \in 1..Len(cb)
    /\ cb[i].result = "pending"
    /\ IF result = "threw"
       THEN /\ ~crash
            /\ cb' = [cb EXCEPT ![i].result = "threw"]
            /\ Unhandled(kill)
            /\ UNCHANGED <<file, settings>>
       ELSE /\ ~kill
            /\ settings' = ApplyResult(settings, cb[i].cmd, result)
            /\ settingsSave(settings', crash)
            /\ cb' = [cb EXCEPT ![i].result = result,
                                ![i].mail = IF ~crash /\ NeedsAlert(cb[i].temp)
                                            THEN "pending" ELSE "none"]
            /\ IF crash THEN Died ELSE pc' = pc /\ outcome' = outcome
    /\ UNCHANGED <<start, reqs, grant, pinMail>>

\* Lines 43-71, 236-237: the alert's mailSend settles for callback i.
MailReturn(i, sent, kill) ==
    /\ pc = "sensors"
    /\ i \in 1..Len(cb)
    /\ cb[i].mail = "pending"
    /\ IF sent
       THEN /\ ~kill
            /\ cb' = [cb EXCEPT ![i].mail = "sent", ![i].logged = TRUE]
            /\ pc' = pc /\ outcome' = outcome
       ELSE /\ cb' = [cb EXCEPT ![i].mail = "failed"]
            /\ Unhandled(kill)
    /\ UNCHANGED <<file, settings, start, reqs, grant, pinMail>>

\* Nothing is pending any more: the process ends.
ProcessEnd ==
    /\ pc = "sensors"
    /\ \A i \in 1..Len(cb) : ~Waiting(cb[i])
    /\ pc' = "exited"
    /\ outcome' = IF \E i \in 1..Len(cb) : Rejected(cb[i])
                  THEN "unhandled" ELSE "completed"
    /\ UNCHANGED <<file, settings, start, reqs, grant, cb, pinMail>>

----------------------------------------------------------------------------
(* The environment: the operator and the provider's bookkeeping *)

\* the operator enters the PIN under My Apps
Redeem(g) ==
    /\ grant[g] = "pending"
    /\ grant' = [grant EXCEPT ![g] = "redeemed"]
    /\ UNCHANGED <<file, settings, start, pc, outcome, reqs, cb, pinMail>>

\* the PIN was not entered in time
Expire(g) ==
    /\ pc = "exited"
    /\ grant[g] = "pending"
    /\ grant' = [grant EXCEPT ![g] = "expired"]
    /\ UNCHANGED <<file, settings, start, pc, outcome, reqs, cb, pinMail>>

\* the authorization ends: the app is removed or its year is over
Revoke(g) ==
    /\ pc = "exited"
    /\ grant[g] = "redeemed"
    /\ grant' = [grant EXCEPT ![g] = "revoked"]
    /\ UNCHANGED <<file, settings, start, pc, outcome, reqs, cb, pinMail>>

Program(crash) ==
    \/ Start(crash)
    \/ PinResponse(crash)
    \/ \E sent \in BOOLEAN, kill \in BOOLEAN : ~crash /\ PinMailReturn(sent, kill)
    \/ TokenResponse(crash)
    \/ PollResponse(crash)
    \/ \E i \in 1..MaxThermostats, r \in {"ok", "fail", "threw"}, kill \in BOOLEAN :
          ToggleReturn(i, r, kill, crash)
    \/ \E i \in 1..MaxThermostats, sent \in BOOLEAN, kill \in BOOLEAN :
          ~crash /\ MailReturn(i, sent, kill)
    \/ ~crash /\ ProcessEnd

Environment ==
    \E g \in Grants : Redeem(g) \/ Expire(g) \/ Revoke(g)

Next == Program(FALSE) \/ Environment

Spec == Init /\ [][Next]_vars

\* the same program when the process may also die inside a save
CrashNext == (\E crash \in BOOLEAN : Program(crash)) \/ Environment

CrashSpec == Init /\ [][CrashNext]_vars

\* runs keep being scheduled and every pending request is answered; the
\* operator enters a PIN that is waiting
FairSpec ==
    /\ Spec
    /\ WF_vars(Program(FALSE))
    /\ WF_vars(\E g \in Grants : Redeem(g))

----------------------------------------------------------------------------
(* Properties *)

\* Between the steps of a run the file holds exactly the in-memory settings.
FileFollowsSettings ==
    (pc # "exited" /\ outcome # "crashed") => file = Stored(settings)

\* the sensors whose callback ran (those of connected thermostats)
Sensors == {i \in 1..Len(cb) : cb[i].connected}

\* the run issued a refresh-grant token request and no PIN-grant request
RefreshOnly ==
    /\ "tokenRefresh" \in reqs
    /\ "authorize" \notin reqs
    /\ "tokenPin" \notin reqs

\* C1 as stated: a run that starts from a snapshot with refresh_token set
\* and access_token absent issues a refresh-grant token request and no
\* PIN-grant request, whatever the authCode is (present or absent).
C1_AnyAuthCode ==
    (reqs # {} /\ start.refresh_token # 0 /\ start.access_token = 0)
        => RefreshOnly

\* C1, amended: a run that starts from a snapshot with an authCode, with
\* refresh_token set and access_token absent, issues a refresh-grant token
\* request and no PIN-grant request.
C1_RefreshPrecedence ==
    (reqs # {} /\ start.authCode # 0 /\ start.refresh_token # 0
        /\ start.access_token = 0)
        => RefreshOnly

\* a run refreshed its token from such a snapshot and went on to poll
C1_Witness ==
    /\ start.authCode # 0 /\ start.refresh_token # 0 /\ start.access_token = 0
    /\ reqs = {"tokenRefresh", "poll"}
    /\ pc = "awaitPoll"

\* the decision rule with the thresholds included (>= 12 off, <= 11 on)
InclusiveRule(temp, dev) ==
    IF temp >= 120 /\ dev # "powerOff" THEN "powerOff"
    ELSE IF temp <= 110 /\ dev # "powerOn" THEN "powerOn"
    ELSE "none"

\* the decision rule with the thresholds excluded (> 12 off, < 11 on)
StrictRule(temp, dev) ==
    IF temp > 120 /\ dev # "powerOff" THEN "powerOff"
    ELSE IF temp < 110 /\ dev # "powerOn" THEN "powerOn"
    ELSE "none"

\* a command that returned success leaves the recorded state, in memory and
\* in the file, equal to the commanded mode
SuccessRecorded ==
    \A i \in Sensors :
        (i <= Len(cb') /\ cb[i].result = "pending" /\ cb'[i].result = "ok")
            => /\ settings'.device_SunroomHeater = cb[i].cmd
               /\ file' = Stored(settings')

\* C2 as stated: for every Sunroom reading and recorded state the command
\* issued is powerOff exactly when reading >= 12 and the state is not
\* powerOff, powerOn exactly when reading <= 11 and the state is not powerOn,
\* and none otherwise.
C2_InclusiveDecision ==
    \A i \in Sensors :
        cb[i].name = "Sunroom" => cb[i].cmd = InclusiveRule(cb[i].temp, cb[i].seen)

\* C2, amended: the command issued is powerOff exactly when reading > 12 and
\* the recorded state is not powerOff, powerOn exactly when reading < 11 and
\* the recorded state is not powerOn, and none otherwise (so none at exactly
\* 11.0 and 12.0); a successful command leaves the recorded state equal to
\* the commanded one.
C2_StrictDecision ==
    /\ [](\A i \in Sensors :
            cb[i].name = "Sunroom" => cb[i].cmd = StrictRule(cb[i].temp, cb[i].seen))
    /\ [][SuccessRecorded]_vars

\* a reading of exactly 12.0 with the heater recorded on gave no command,
\* while a reading of 13.0 in the same poll switched it off
C2_Witness ==
    \E i, j \in Sensors :
        /\ cb[i].name = "Sunroom" /\ cb[i].temp = 120 /\ cb[i].seen = "powerOn"
        /\ cb[i].cmd = "none"
        /\ cb[j].name = "Sunroom" /\ cb[j].temp = 130 /\ cb[j].result = "ok"
        /\ settings.device_SunroomHeater = "powerOff"

\* the current authCode has been exchanged for tokens and the poll was sent
PolledWithOwnToken ==
    /\ "poll" \in reqs
    /\ settings.authCode # 0
    /\ settings.access_token = settings.authCode

\* what the claim assumes away: the provider issues no further PIN, or the
\* stored authCode was never redeemed in time, or its authorization has ended
OutOfProgramsHands ==
    \/ settings.authCode = 0 /\ ~GrantsLeft
    \/ settings.authCode # 0 /\ grant[settings.authCode] \in {"expired", "revoked"}

\* C3: after a run halted on authorization_expired (authCode cleared), a
\* later run exchanges the authCode of the fresh PIN cycle for tokens and
\* polls the sensors, provided runs keep being scheduled, the operator enters
\* the PIN and the new authorization stays valid.
C3_Recovers ==
    (outcome = "authCode_expired") ~> (PolledWithOwnToken \/ OutOfProgramsHands)

FileData == Loaded(file)

\* C4 as stated: no persisted snapshot holds an authCode together with an
\* access_token, and no token field sits beside an authCode of another grant.
C4_AuthCodeOnlyWhilePending ==
    IsSnapshot(file) =>
        /\ ~(FileData.authCode # 0 /\ FileData.access_token # 0)
        /\ FileData.authCode # 0 =>
              /\ FileData.access_token \in {0, FileData.authCode}
              /\ FileData.refresh_token \in {0, FileData.authCode}

\* C4, amended: in every persisted snapshot an access_token is present only
\* together with an authCode, and it is a token of that authCode's grant
\* (the authCode stays in the snapshot while authorized; a refresh_token of
\* an earlier grant may remain beside a newer authCode).
C4_TokenNeedsItsAuthCode ==
    (IsSnapshot(file) /\ FileData.access_token # 0)
        => FileData.authCode = FileData.access_token

\* the second authorization is stored complete, beside nothing of the first
C4_Witness ==
    /\ IsSnapshot(file)
    /\ FileData.authCode = 2
    /\ FileData.access_token = 2

FileDevice == FileData.device_SunroomHeater

\* the recorded state changes only with a command that returned success, to
\* the mode that was commanded
ChangeIsConfirmed ==
    FileDevice' # FileDevice =>
        \E i \in Sensors :
            /\ i <= Len(cb')
            /\ cb[i].result = "pending"
            /\ cb'[i].result = "ok"
            /\ FileDevice' = cb[i].cmd

\* a command that failed or threw leaves the recorded state alone
FailureKeepsState ==
    \A i \in Sensors :
        (i <= Len(cb') /\ cb[i].result = "pending" /\ cb'[i].result \in {"fail", "threw"})
            => FileDevice' = FileDevice

\* C5: device_SunroomHeater in the snapshot changes only in a step in which a
\* command returned success, and then to the commanded mode; a failed command
\* leaves it unchanged.
C5_ConfirmedOnly == [][ChangeIsConfirmed /\ FailureKeepsState]_vars

\* one command was confirmed and recorded while another one failed
C5_Witness ==
    \E i, j \in Sensors :
        /\ cb[i].result = "fail"
        /\ cb[j].result = "ok"
        /\ FileDevice = cb[j].cmd
        /\ FileDevice # start.device_SunroomHeater

InFlight == {i \in Sensors : cb[i].result = "pending"}

\* C6: at no time are two deviceToggle commands in flight, and no tracked
\* sensor has taken its decision while the command of another one is still
\* outstanding.
C6_Serialized ==
    /\ Cardinality(InFlight) <= 1
    /\ \A i \in InFlight : \A j \in Sensors : j > i => cb[j].name # "Sunroom"

\* C7: a rejected mailSend never aborts the flow: the PIN path still halts
\* as AuthorizationPending with the authCode persisted, the alert path still
\* writes its journal line, and no uncaught error ends the run.
C7_MailFailureNotFatal ==
    /\ pinMail = "failed" =>
          outcome = "AuthorizationPending" /\ FileData.authCode # 0
    /\ \A i \in Sensors : cb[i].mail = "failed" => cb[i].logged
    /\ (pinMail = "failed" \/ \E i \in Sensors : cb[i].mail = "failed")
          => outcome \notin {"uncaught", "unhandled"}

\* C8: whenever the process dies, the snapshot file holds a complete
\* snapshot (the previous or the new one), never a truncated document.
C8_AtomicSave == file.kind # "partial"

\* C9: a connected Sunroom sensor reading below 5 degrees has its alert
\* mailed once the actuation is over, whatever the actuation did.
C9_AlertWhateverActuation ==
    \A i \in Sensors :
        (cb[i].name = "Sunroom" /\ cb[i].temp < 50 /\ cb[i].result # "pending")
            => cb[i].mail # "none"

\* C10: when the poll answers with status code 14 the run halts, and the
\* snapshot written has no access_token and every other field as it was
\* before the poll.
C10_ExpiredToken ==
    [][(pc = "awaitPoll" /\ outcome' = "upstream_expired") =>
          /\ pc' = "exited"
          /\ IsSnapshot(file) /\ IsSnapshot(file')
          /\ FileData'.access_token = 0
          /\ FileData'.authCode = FileData.authCode
          /\ FileData'.refresh_token = FileData.refresh_token
          /\ FileData'.token_type = FileData.token_type
          /\ FileData'.device_SunroomHeater = FileData.device_SunroomHeater]_vars

\* a run halted on status 14 with a full snapshot: only access_token is gone
C10_Witness ==
    /\ outcome = "upstream_expired"
    /\ FileData.access_token = 0
    /\ FileData.authCode # 0
    /\ FileData.refresh_token # 0
    /\ FileData.token_type # 0
    /\ FileDevice # "unset"

\* ---------------------------------------------------------------------------
\* C11  Token-exchange error branching.  When the token request is answered
\* with authorization_expired the run clears authCode and nothing else, saves
\* and ends; on any other error it clears access_token and nothing else,
\* saves and ends.  No poll is sent and no sensor is processed in that run.
TokenFailed == pc = "awaitToken" /\ outcome' \in {"authCode_expired", "token_error"}

OnlyAuthCodeCleared ==
    /\ FileData'.authCode = 0
    /\ FileData'.access_token = FileData.access_token
    /\ FileData'.refresh_token = FileData.refresh_token
    /\ FileData'.token_type = FileData.token_type
    /\ FileData'.device_SunroomHeater = FileData.device_SunroomHeater

OnlyAccessTokenCleared ==
    /\ FileData'.access_token = 0
    /\ FileData'.authCode = FileData.authCode
    /\ FileData'.refresh_token = FileData.refresh_token
    /\ FileData'.token_type = FileData.token_type
    /\ FileData'.device_SunroomHeater = FileData.device_SunroomHeater

C11_TokenErrorBranches ==
    [][TokenFailed =>
        /\ IsSnapshot(file') /\ FileData' = settings'
        /\ outcome' = "authCode_expired" => OnlyAuthCodeCleared
        /\ outcome' = "token_error" => OnlyAccessTokenCleared
        /\ pc' = "exited"
        /\ "poll" \notin reqs' /\ cb' = <<>>]_vars

\* a refresh request was rejected as authorization_expired: authCode is gone
\* from the file, the refresh token and the recorded device state are kept
C11_Witness ==
    /\ outcome = "authCode_expired"
    /\ start.authCode # 0 /\ FileData.authCode = 0
    /\ FileData.refresh_token # 0
    /\ FileData.device_SunroomHeater # "unset"

\* ---------------------------------------------------------------------------
\* C12  Anti-oscillation.  With commands succeeding, while the Sunroom
\* readings stay at or inside the dead band [11, 12] the recorded device
\* state does not flip back and forth: a run all of whose Sunroom readings
\* lie in the band issues no command and leaves the recorded state as the
\* last out-of-band reading set it, so between two out-of-band readings it
\* changes at most once.
InBand(temp) == OnBelow <= temp /\ temp <= OffAbove

InBandRun ==
    /\ pc = "sensors" \/ outcome = "completed"
    /\ \E i \in Sensors : cb[i].name = "Sunroom"
    /\ \A i \in Sensors : cb[i].name = "Sunroom" => InBand(cb[i].temp)

C12_NoOscillationInBand ==
    [][InBandRun' =>
        /\ FileDevice' = FileDevice
        /\ \A i \in 1..Len(cb') : cb'[i].cmd = "none"]_vars

\* the heater was switched on by an earlier run; this run read exactly 12.0
\* and ended with the recorded state still on
C12_Witness ==
    /\ outcome = "completed"
    /\ InBandRun
    /\ \E i \in Sensors : cb[i].name = "Sunroom" /\ cb[i].temp = OffAbove
    /\ start.device_SunroomHeater = "powerOn"
    /\ FileDevice = "powerOn"

\* ---------------------------------------------------------------------------
\* C13  Idempotent actuation.  No command is issued for a Sunroom reading
\* strictly inside the dead band, nor for a reading outside it when the
\* recorded state already is the state that reading demands; the callback of
\* such a reading leaves the recorded state as it was.
Satisfied(temp, dev) ==
    \/ OnBelow < temp /\ temp < OffAbove
    \/ temp > OffAbove /\ dev = "powerOff"
    \/ temp < OnBelow /\ dev = "powerOn"

NoCommandWhenSatisfied ==
    \A i \in Sensors :
        cb[i].name = "Sunroom" /\ Satisfied(cb[i].temp, cb[i].seen)
            => cb[i].cmd = "none" /\ cb[i].result = "none"

\* the steps of a callback that issued no command: its start, in the step
\* where the poll answers, and the completion of its alert
QuietCallbackStep ==
    \E i \in 1..Len(cb') :
        /\ cb'[i].connected /\ cb'[i].name = "Sunroom"
        /\ Satisfied(cb'[i].temp, cb'[i].seen)
        /\ i \in 1..Len(cb) => cb[i] # cb'[i]

C13_IdempotentActuation ==
    /\ []NoCommandWhenSatisfied
    /\ [][QuietCallbackStep => FileDevice' = FileDevice]_vars

\* reading 11.5 with the heater recorded off, and a reading of 13.0 with the
\* heater recorded off: no command for either, the state stays off
C13_Witness ==
    /\ outcome = "completed"
    /\ \E i \in Sensors :
          cb[i].name = "Sunroom" /\ cb[i].temp = 115 /\ cb[i].seen = "powerOff" /\ cb[i].cmd = "none"
    /\ \E i \in Sensors :
          cb[i].name = "Sunroom" /\ cb[i].temp = 130 /\ cb[i].seen = "powerOff" /\ cb[i].cmd = "none"
    /\ FileDevice = "powerOff"

\* ---------------------------------------------------------------------------
\* C14  Pending authorization.  A run that starts with no authCode requests a
\* PIN grant, stores the new authCode in the file before the operator is
\* notified, and then ends as AuthorizationPending with a non-zero exit
\* code, having sent no token request and no poll and started no sensor
\* callback.
PinRun == reqs # {} /\ start.authCode = 0

C14_PendingAuthorization ==
    /\ PinRun => reqs = {"authorize"} /\ cb = <<>>
    /\ PinRun /\ pinMail # "none" => FileData.authCode # 0
    /\ PinRun /\ pc = "exited" =>
          outcome = "AuthorizationPending" /\ ExitCode(outcome) # 0

\* ---------------------------------------------------------------------------
\* C15  Unknown upstream error.  When the poll answers with a non-zero status
\* code other than 14, the run ends with a non-zero exit code, starts no
\* sensor callback, and the file is exactly what it was before the poll.
C15_OtherStatusKeepsSnapshot ==
    [][pc = "awaitPoll" /\ outcome' = "upstream_other" =>
        /\ file' = file
        /\ pc' = "exited" /\ ExitCode(outcome') # 0
        /\ cb' = <<>>]_vars

\* a poll was answered with another status: tokens and device state remain
C15_Witness ==
    /\ outcome = "upstream_other"
    /\ "poll" \in reqs
    /\ FileData.access_token # 0 /\ FileData.authCode # 0
    /\ FileData.device_SunroomHeater # "unset"

\* ---------------------------------------------------------------------------
\* C16  Fatal conditions gate actuation.  A command is issued only after the
\* poll of the same run answered status 0 with an access token present; a
\* run that ends as AuthorizationPending, on a token error or on a non-zero
\* poll status issues no command and exits non-zero; and a run exits zero
\* only if it completed the whole cycle of poll, decisions and saves.
Halts == {"AuthorizationPending", "authCode_expired", "token_error",
          "upstream_expired", "upstream_other"}

CommandsGated ==
    (\E i \in 1..Len(cb) : cb[i].cmd # "none")
        => "poll" \in reqs /\ settings.access_token # 0

HaltsWithoutCommand ==
    outcome \in Halts => cb = <<>> /\ ExitCode(outcome) # 0

FullCycle ==
    /\ "poll" \in reqs
    /\ cb # <<>>
    /\ \A i \in 1..Len(cb) : ~Waiting(cb[i]) /\ ~Rejected(cb[i])

ZeroOnlyAfterFullCycle ==
    reqs # {} /\ pc = "exited" /\ ExitCode(outcome) = 0 => FullCycle

C16_FatalGatesActuation ==
    CommandsGated /\ HaltsWithoutCommand /\ ZeroOnlyAfterFullCycle

\* ---------------------------------------------------------------------------
\* C17  Actuation retry across runs.  A command that reported failure is not
\* repeated in the same run and leaves the recorded state as it was, so every
\* later run that reads the recorded state from the file and gets a reading
\* demanding the other state issues that command again; once a command has
\* succeeded the recorded state agrees and no command is issued for such
\* readings.
Demanded(temp) ==
    IF temp > OffAbove THEN "powerOff"
    ELSE IF temp < OnBelow THEN "powerOn"
    ELSE "none"

NoRetryInRun ==
    /\ \A i \in Sensors :
          (i <= Len(cb') /\ cb[i].result = "fail")
              => cb'[i].result = "fail" /\ cb'[i].cmd = cb[i].cmd
    /\ pc = "sensors" => InFlight' \subseteq InFlight

\* the decisions of a run are taken against the state recorded in the file
NextPollReissues ==
    pc = "awaitPoll" /\ pc' = "sensors" =>
        \A i \in 1..Len(cb') :
            cb'[i].connected /\ cb'[i].name = "Sunroom" =>
                /\ cb'[i].seen = FileDevice
                /\ (Demanded(cb'[i].temp) # "none" /\ Demanded(cb'[i].temp) # FileDevice)
                      => cb'[i].cmd = Demanded(cb'[i].temp) /\ cb'[i].result = "pending"
                /\ Demanded(cb'[i].temp) = FileDevice => cb'[i].cmd = "none"

C17_RetryAcrossRuns ==
    [][NoRetryInRun /\ FailureKeepsState /\ NextPollReissues]_vars

\* a run has ended whose only command failed: the recorded state still
\* disagrees with what the reading demands, which the next poll acts on
C17_Witness ==
    /\ outcome = "completed"
    /\ \E i \in Sensors :
          /\ cb[i].result = "fail"
          /\ cb[i].cmd = Demanded(cb[i].temp)
          /\ FileDevice # cb[i].cmd
          /\ FileDevice = cb[i].seen
    /\ \A i \in Sensors : cb[i].result # "ok"

\* ---------------------------------------------------------------------------
\* C18  A disconnected thermostat is a soft warning.  Its sensor gets no
\* decision, no command and no alert; the run is not ended by it; and the
\* sensors of the connected thermostats of the same poll are processed as
\* usual, whether they come before or after it in the list.
SkippedOnes == {i \in 1..Len(cb) : ~cb[i].connected}

SkippedIsQuiet ==
    \A i \in SkippedOnes :
        cb[i].cmd = "none" /\ cb[i].result = "none" /\ cb[i].mail = "none" /\ ~cb[i].logged

OthersProcessed ==
    SkippedOnes # {} =>
        \A j \in Sensors :
            cb[j].name = "Sunroom" =>
                /\ cb[j].cmd = IF Demanded(cb[j].temp) \notin {"none", cb[j].seen}
                               THEN Demanded(cb[j].temp) ELSE "none"
                /\ (cb[j].cmd = "none" /\ cb[j].temp < AlertBelow) => cb[j].mail # "none"

RunGoesOn ==
    (pc = "awaitPoll" /\ cb' # <<>>) => pc' = "sensors" /\ outcome' = outcome

C18_DisconnectedIsSoft ==
    /\ [](SkippedIsQuiet /\ OthersProcessed)
    /\ [][RunGoesOn]_vars

\* a disconnected Sunroom thermostat came first in the poll; the connected
\* one after it had its command issued, confirmed and recorded, and the run
\* completed
C18_Witness ==
    /\ outcome = "completed"
    /\ Len(cb) = 2
    /\ ~cb[1].connected /\ cb[1].name = "Sunroom"
    /\ cb[2].connected /\ cb[2].name = "Sunroom"
    /\ cb[2].result = "ok" /\ FileDevice = cb[2].cmd

\* ---------------------------------------------------------------------------
\* C19  Already authorized.  A run that finds both authCode and access_token
\* in the file sends neither a PIN request nor a token request, leaves the
\* file as it is, and goes straight to the poll.
AuthorizedFile ==
    IsSnapshot(file) /\ file.data.authCode # 0 /\ file.data.access_token # 0

StraightToPoll ==
    (pc = "exited" /\ pc' # "exited" /\ AuthorizedFile) =>
        /\ reqs' = {"poll"} /\ pc' = "awaitPoll"
        /\ file' = file /\ settings' = file.data

OnlyThePoll ==
    (reqs # {} /\ start.authCode # 0 /\ start.access_token # 0) => reqs = {"poll"}

C19_AlreadyAuthorized == [][StraightToPoll]_vars /\ []OnlyThePoll

\* such a run is waiting for the poll's answer, the file being what it found
C19_Witness ==
    /\ pc = "awaitPoll"
    /\ start.authCode # 0 /\ start.access_token # 0
    /\ reqs = {"poll"}
    /\ file = Stored(start)

\* ---------------------------------------------------------------------------
\* C20  An unreadable snapshot resets everything.  A run that finds the
\* settings file missing or unparsable overwrites it with an empty snapshot
\* and goes on as unauthenticated, requesting a new PIN: whatever tokens,
\* authCode and device state were stored before are gone.
Unreadable == file.kind \in {"missing", "partial"}

C20_UnreadableResets ==
    [][(pc = "exited" /\ Unreadable /\ pc' # "exited") =>
        /\ file' = Stored(Empty)
        /\ settings' = Empty
        /\ reqs' = {"authorize"} /\ pc' = "awaitPin"]_vars

\* the operator had completed an authorization, whose authCode was in the
\* file; the file was then lost to an interrupted write, and the present run
\* has replaced it by the empty snapshot and asked for a new PIN
C20_Witness ==
    /\ pc = "awaitPin"
    /\ file = Stored(Empty) /\ start = Empty
    /\ \E g \in Grants : grant[g] = "redeemed"
    /\ \E g \in Grants : grant[g] = "none"

====
